---- MODULE Spec2Model ----
(***************************************************************************)
(* Authentication / session-token lifecycle and identity-verification      *)
(* review of the vietick backend, as a state machine over the database     *)
(* tables (users, refresh_tokens, identity_verifications).                 *)
(* revoked is a history variable: the refresh tokens whose sessions a       *)
(* successful ChangePassword deleted.                                      *)
(*                                                                         *)
(* Every request handler is a process that moves through one step per      *)
(* database statement it issues; the database executes each statement (and *)
(* each explicit transaction) atomically.  The wall clock is counted in    *)
(* whole seconds, the precision of the JWT time claims (NumericDate) and   *)
(* of the TIMESTAMP columns; it moves forward through a few instants,      *)
(* neighbouring seconds and the second a refresh lifetime after the first. *)
(***************************************************************************)
EXTENDS Integers, FiniteSets, Sequences, TLC

VARIABLES config, limiter, now, users, refresh_tokens, verifications, pc, local, revoked

vars == <<config, limiter, now, users, refresh_tokens, verifications, pc, local, revoked>>

(***************************************************************************)
(* Bounds of the model                                                     *)
(***************************************************************************)
\* the clock visits the seconds 0..MaxTime, then the second one refresh
\* lifetime after second 0
MaxTime == 1
\* number of primary keys available to refresh_tokens rows
MaxRows == 6
\* number of primary keys available to identity_verifications rows
MaxVerifications == 2
MaxClock == 13

(***************************************************************************)
(* Program constants                                                       *)
(***************************************************************************)
\* storeRefreshToken: "limit to 5 devices"
MaxSessionsPerUser == 5
\* Register: the email verification token lives 24 hours
EmailVerificationExpiryHour == 24
\* JWT_REFRESH_EXPIRY_DAY, its default
RefreshExpiryDay == 7
AccessExpiryHour == 24
AuthRate == 5
ApiRate == 60
GlobalRate == 100
RefillSeconds == 60
\* GetRefreshTokenExpiry: the lifetime of a refresh token and of its stored
\* session, in seconds
RefreshExpiry == RefreshExpiryDay * 24 * 3600
AccessExpiry == AccessExpiryHour * 3600

EmailVerificationExpiry == EmailVerificationExpiryHour * 3600

\* the seconds the clock visits
Instants == (0..MaxTime) \cup {RefreshExpiry}

Users == {"u1", "u2"}
Usernames == {"n1", "n2"}
Passwords == {"pw1", "pw2"}
Procs == {"p1", "p2"}
Admins == {"admin"}

None == "none"

RowIds == 1..MaxRows
VerificationIds == 1..MaxVerifications

(***************************************************************************)
(* Credential hasher (utils.HashPassword / utils.CheckPassword)            *)
(***************************************************************************)
HashPassword(pw) == <<"bcrypt", pw>>

CheckPassword(pw, hash) == hash = HashPassword(pw)

(***************************************************************************)
(* Token codec (pkg/jwt)                                                   *)
(* A token is its signed content: the secret that signed it, the claims    *)
(* about the user, and iat = nbf and exp in whole seconds.  Two tokens     *)
(* minted for the same user in the same second under the same secret are   *)
(* the same string.                                                        *)
(***************************************************************************)
GenerateAccessToken(u, t) ==
    [secret |-> config.AccessSecret, user_id |-> u, iat |-> t,
     exp |-> t + AccessExpiry]

GenerateRefreshToken(u, t) ==
    [secret |-> config.RefreshSecret, user_id |-> u, iat |-> t,
     exp |-> t + RefreshExpiry]

\* jwt.ParseWithClaims under a secret at time t: "ok", or the reason the
\* library gives for refusing the token
ParseWithClaims(tok, secret, t) ==
    IF tok.secret # secret THEN "token signature is invalid"
    ELSE IF t >= tok.exp THEN "token is expired"
    ELSE IF t < tok.iat THEN "token is not valid yet"
    ELSE "ok"

ValidateAccessToken(tok, t) == ParseWithClaims(tok, config.AccessSecret, t) = "ok"

ValidateRefreshToken(tok, t) == ParseWithClaims(tok, config.RefreshSecret, t) = "ok"

\* every refresh token a client can hold
RefreshTokens == { GenerateRefreshToken(u, t) : u \in Users, t \in Instants }

\* every access token a client can hold
AccessTokens == { GenerateAccessToken(u, t) : u \in Users, t \in Instants }

\* the tokens the service has had the time to mint: what a client can send
\* as a refresh token at time t
ClientTokens(t) == { tok \in RefreshTokens \cup AccessTokens : tok.iat <= t }

\* AuthService.hashToken: SHA-256 of the token string, hex encoded
hashToken(tok) == <<"sha256", tok>>

(***************************************************************************)
(* AuthRepository: statements on refresh_tokens                            *)
(***************************************************************************)
\* rows found by "token_hash = ? AND expires_at > now"
GetRefreshToken(rows, hash, t) ==
    { r \in rows : r.token_hash = hash /\ r.expires_at > t }

DeleteRefreshToken(rows, hash) ==
    { r \in rows : r.token_hash # hash }

DeleteUserRefreshTokens(rows, u) ==
    { r \in rows : r.user_id # u }

\* a sweep that spares the rows expiring at this very instant
CleanupExpiredRowsStrictlyPast(rows, t) ==
    { r \in rows : ~(r.expires_at < t) }

CleanupExpiredRows(rows, t) ==
    { r \in rows : ~(r.expires_at <= t) }

GetUserRefreshTokenCount(rows, u, t) ==
    Cardinality({ r \in rows : r.user_id = u /\ r.expires_at > t })

\* the oldest row of the whole table, whoever owns it
OldestRefreshTokenOfAnyUser(rows, u) ==
    { r \in rows : \A o \in rows :
        \/ r.created_at < o.created_at
        \/ (r.created_at = o.created_at /\ r.id <= o.id) }

\* "user_id = ?" ORDER BY created_at ASC (then primary key) LIMIT 1:
\* the set holding that row, empty when the user has no row
OldestUserRefreshToken(rows, u) ==
    LET mine == { r \in rows : r.user_id = u }
    IN { r \in mine : \A o \in mine :
            \/ r.created_at < o.created_at
            \/ (r.created_at = o.created_at /\ r.id <= o.id) }

\* DELETE by primary key
DeleteRow(rows, id) == { r \in rows : r.id # id }

NewRefreshTokenRow(id, u, tok, t) ==
    [id |-> id, user_id |-> u, token_hash |-> hashToken(tok),
     expires_at |-> t + RefreshExpiry, created_at |-> t]

(***************************************************************************)
(* Observations used by the properties                                     *)
(***************************************************************************)
\* the token a row stores the hash of
TokenOf(r) == r.token_hash[2]

LiveSessions(rows, u, t) == { r \in rows : r.user_id = u /\ r.expires_at > t }

\* RefreshToken(tok) passes its validation and its lookup at time t
RefreshAccepts(rows, tok, t) ==
    /\ ValidateRefreshToken(tok, t)
    /\ GetRefreshToken(rows, hashToken(tok), t) # {}

(***************************************************************************)
(* State of a request in flight                                            *)
(***************************************************************************)
NoToken == [secret |-> None, user_id |-> None, iat |-> 0, exp |-> 0]

\* NULL in users.email_verification_token
NoEmailToken == <<"email", None>>

NoUser ==
    [exists |-> FALSE, username |-> None, password_hash |-> None, full_name |-> 0,
     is_verified |-> FALSE, identity_verification_status |-> "none",
     is_email_verified |-> FALSE, email_verification_token |-> NoEmailToken,
     email_verification_expires_at |-> 0]

\* pre is a history field: the refresh_tokens table as Login found it
IdleLocal ==
    [op |-> None, user |-> None, username |-> None, tok |-> NoToken, newtok |-> NoToken,
     pw |-> None, stored |-> 0, oldest |-> 0, result |-> None, pre |-> {},
     vid |-> 0, decision |-> None, reviewer |-> None, snapshot |-> NoUser,
     token |-> NoEmailToken, mail |-> None, err |-> None]

\* utils.GenerateEmailVerificationToken: 32 random bytes, a value no other
\* call returns; Register is the one call the model makes for a user
GenerateEmailVerificationToken(u) == <<"email", u>>

\* the row AuthService.Register creates at time t
NewUser(u, n, pw, t) ==
    [exists |-> TRUE, username |-> n, password_hash |-> HashPassword(pw), full_name |-> 0,
     is_verified |-> FALSE, identity_verification_status |-> "none",
     is_email_verified |-> FALSE,
     email_verification_token |-> GenerateEmailVerificationToken(u),
     email_verification_expires_at |-> t + EmailVerificationExpiry]

\* EmailService.sendEmail: the SMTP delivery succeeds or returns an error
MailOutcomes == {"sent", "failed"}

\* the next two change local[p] only
Fail(p, op, err) ==
    /\ pc' = [pc EXCEPT ![p] = "idle"]
    /\ local' = [local EXCEPT ![p] = [IdleLocal EXCEPT !.op = op, !.result = err]]

Goto(p, label, loc) ==
    /\ pc' = [pc EXCEPT ![p] = label]
    /\ local' = [local EXCEPT ![p] = loc]

\* a RateLimiter that has seen no request: its visitors map is empty
NoLimiter == [rate |-> 0, visitor |-> FALSE, tokens |-> 0, lastRefill |-> 0, admitted |-> 0]

\* config.Load with no JWT_ACCESS_SECRET and no JWT_REFRESH_SECRET set
DefaultConfig ==
    [AccessSecret |-> "your-super-secret-jwt-access-key",
     RefreshSecret |-> "your-super-secret-jwt-refresh-key"]

Init ==
    /\ config = DefaultConfig
    /\ limiter = NoLimiter
    /\ now = 0
    /\ users = [u \in Users |-> NoUser]
    /\ refresh_tokens = {}
    /\ verifications = {}
    /\ pc = [p \in Procs |-> "idle"]
    /\ local = [p \in Procs |-> IdleLocal]
    /\ revoked = {}

(***************************************************************************)
(* The clock and the hourly cleanup goroutine                              *)
(***************************************************************************)
Tick ==
    /\ \E t \in Instants : t > now /\ now' = t
    /\ UNCHANGED <<config, limiter, users, refresh_tokens, verifications, pc, local, revoked>>

CleanupExpiredTokens ==
    /\ refresh_tokens' = CleanupExpiredRows(refresh_tokens, now)
    /\ UNCHANGED <<config, limiter, now, users, verifications, pc, local, revoked>>

(***************************************************************************)
(* AuthService.storeRefreshToken: count, evict the oldest, insert          *)
(***************************************************************************)
StoreCount(p) ==
    /\ pc[p] = "store_count"
    /\ LET count == GetUserRefreshTokenCount(refresh_tokens, local[p].user, now)
       IN pc' = [pc EXCEPT ![p] =
                    IF count >= MaxSessionsPerUser THEN "store_find" ELSE "store_create"]
    /\ UNCHANGED <<config, limiter, now, users, refresh_tokens, verifications, local, revoked>>

\* DeleteOldestUserRefreshToken, first statement: SELECT the oldest row
StoreFindOldest(p) ==
    /\ pc[p] = "store_find"
    /\ LET found == OldestUserRefreshToken(refresh_tokens, local[p].user)
       IN IF found = {}
          THEN Goto(p, "store_create", local[p])
          ELSE \E r \in found :
                  Goto(p, "store_delete", [local[p] EXCEPT !.oldest = r.id])
    /\ UNCHANGED <<config, limiter, now, users, refresh_tokens, verifications, revoked>>

\* DeleteOldestUserRefreshToken, second statement: DELETE that row
StoreDeleteOldest(p) ==
    /\ pc[p] = "store_delete"
    /\ refresh_tokens' = DeleteRow(refresh_tokens, local[p].oldest)
    /\ Goto(p, "store_create", [local[p] EXCEPT !.oldest = 0])
    /\ UNCHANGED <<config, limiter, now, users, verifications, revoked>>

\* uuid.New() returns a fresh key: one that no row has and that no request in
\* flight has read.  Keys are compared only to break created_at ties in
\* OldestUserRefreshToken, so the model takes the least fresh key; a key freed
\* by a delete is taken again, which lets a newer row sort before or after an
\* older row of the same second.
FreeRowIds ==
    { i \in RowIds :
        /\ \A r \in refresh_tokens : r.id # i
        /\ \A q \in Procs : local[q].oldest # i /\ local[q].stored # i }

NewRowId == CHOOSE i \in FreeRowIds : \A j \in FreeRowIds : i <= j

\* CreateRefreshToken
StoreCreate(p) ==
    /\ pc[p] = "store_create"
    /\ FreeRowIds # {}
    /\ refresh_tokens' = refresh_tokens \cup
          { NewRefreshTokenRow(NewRowId, local[p].user, local[p].newtok, now) }
    /\ Goto(p, "get_profile", local[p])
    /\ UNCHANGED <<config, limiter, now, users, verifications, revoked>>

\* userRepo.GetProfile, then Register / Login / RefreshToken return the pair
GetProfileReturn(p) ==
    /\ pc[p] = "get_profile"
    /\ Goto(p, "idle", [IdleLocal EXCEPT !.op = local[p].op, !.result = "ok",
                                         !.newtok = local[p].newtok,
                                         !.mail = local[p].mail])
    /\ UNCHANGED <<config, limiter, now, users, refresh_tokens, verifications, revoked>>

(***************************************************************************)
(* AuthService.Register                                                    *)
(***************************************************************************)
\* userRepo.GetByUsername
GetByUsername(us, n) == { u \in Users : us[u].exists /\ us[u].username = n }

\* what gorm's Create returns when the INSERT breaks a UNIQUE key of the users
\* table: the MySQL driver's error 1062 as it is, or gorm's translation of
\* it; which of the two depends on how the connection was opened
DuplicateKeyErrors ==
    {"Error 1062 (23000): Duplicate entry", "duplicated key not allowed"}

\* UserRepository.Create and AuthService.Register each wrap the error
CreateUserError(dberr) ==
    IF dberr = "duplicated key not allowed"
    THEN "failed to create user: failed to create user: duplicated key not allowed"
    ELSE "failed to create user: failed to create user: Error 1062 (23000): Duplicate entry"

RegisterCheck(p, u, n, pw) ==
    /\ pc[p] = "idle"
    /\ IF users[u].exists
       THEN Fail(p, "Register", "user with this email already exists")
       ELSE IF GetByUsername(users, n) # {}
       THEN Fail(p, "Register", "user with this username already exists")
       ELSE Goto(p, "register_create",
                 [IdleLocal EXCEPT !.op = "Register", !.user = u,
                                   !.username = n, !.pw = pw])
    /\ UNCHANGED <<config, limiter, now, users, refresh_tokens, verifications, revoked>>

\* INSERT INTO users: the table's UNIQUE keys on email and username decide
RegisterCreate(p) ==
    /\ pc[p] = "register_create"
    /\ LET u == local[p].user
           n == local[p].username
       IN IF users[u].exists \/ GetByUsername(users, n) # {}
          THEN /\ \E dberr \in DuplicateKeyErrors :
                     Fail(p, "Register", CreateUserError(dberr))
               /\ UNCHANGED users
          ELSE /\ users' = [users EXCEPT ![u] = NewUser(u, n, local[p].pw, now)]
               /\ \E m \in MailOutcomes :
                     Goto(p, "store_count",
                          [local[p] EXCEPT !.newtok = GenerateRefreshToken(u, now),
                                           !.mail = m])
    /\ UNCHANGED <<config, limiter, now, refresh_tokens, verifications, revoked>>

(***************************************************************************)
(* AuthService.Login                                                       *)
(***************************************************************************)
\* Login that tells the caller which of the two checks failed
LoginStartTellsCause(p, u, pw) ==
    /\ pc[p] = "idle"
    /\ IF ~users[u].exists
       THEN Goto(p, "idle", [IdleLocal EXCEPT !.op = "Login", !.user = u,
                                              !.result = "user not found"])
       ELSE IF ~CheckPassword(pw, users[u].password_hash)
       THEN Goto(p, "idle", [IdleLocal EXCEPT !.op = "Login", !.user = u,
                                              !.result = "invalid password"])
       ELSE Goto(p, "store_count",
                 [IdleLocal EXCEPT !.op = "Login", !.user = u, !.pw = pw,
                                   !.newtok = GenerateRefreshToken(u, now),
                                   !.pre = refresh_tokens])
    /\ UNCHANGED <<config, limiter, now, users, refresh_tokens, verifications, revoked>>

\* a failed Login leaves in local the email it was called with
LoginStart(p, u, pw) ==
    /\ pc[p] = "idle"
    /\ IF ~users[u].exists \/ ~CheckPassword(pw, users[u].password_hash)
       THEN Goto(p, "idle", [IdleLocal EXCEPT !.op = "Login", !.user = u,
                                              !.result = "invalid email or password"])
       ELSE Goto(p, "store_count",
                 [IdleLocal EXCEPT !.op = "Login", !.user = u, !.pw = pw,
                                   !.newtok = GenerateRefreshToken(u, now),
                                   !.pre = refresh_tokens])
    /\ UNCHANGED <<config, limiter, now, users, refresh_tokens, verifications, revoked>>

(***************************************************************************)
(* AuthService.RefreshToken                                                *)
(***************************************************************************)
\* "invalid refresh token: %w": the message carries the library's reason
InvalidRefreshToken(reason) ==
    CASE reason = "token signature is invalid"
            -> "invalid refresh token: token signature is invalid"
      [] reason = "token is expired" -> "invalid refresh token: token is expired"
      [] OTHER -> "invalid refresh token: token is not valid yet"

RefreshStart(p, tok) ==
    /\ pc[p] = "idle"
    /\ IF ~ValidateRefreshToken(tok, now)
       THEN Fail(p, "RefreshToken",
                 InvalidRefreshToken(ParseWithClaims(tok, config.RefreshSecret, now)))
       ELSE IF GetRefreshToken(refresh_tokens, hashToken(tok), now) = {}
       THEN Fail(p, "RefreshToken", "refresh token not found or expired")
       ELSE \E stored \in GetRefreshToken(refresh_tokens, hashToken(tok), now) :
               IF ~users[stored.user_id].exists
               THEN Fail(p, "RefreshToken", "user not found")
               ELSE
               Goto(p, "refresh_delete",
                    [IdleLocal EXCEPT !.op = "RefreshToken", !.tok = tok,
                        !.user = stored.user_id, !.stored = stored.id,
                        !.newtok = GenerateRefreshToken(stored.user_id, now)])
    /\ UNCHANGED <<config, limiter, now, users, refresh_tokens, verifications, revoked>>

RefreshDelete(p) ==
    /\ pc[p] = "refresh_delete"
    /\ refresh_tokens' = DeleteRefreshToken(refresh_tokens, hashToken(local[p].tok))
    /\ Goto(p, "store_count", local[p])
    /\ UNCHANGED <<config, limiter, now, users, verifications, revoked>>

(***************************************************************************)
(* middleware.HandleError: the response a handler sends for a service      *)
(* error.  The status is chosen by the first of the words "not found",     *)
(* "already exists", "duplicate", "invalid" the error text contains, in    *)
(* lower case; the text itself is sent along.                              *)
(***************************************************************************)
HandleError(err) ==
    LET notFound == err \in {"refresh token not found or expired", "user not found"}
        exists == err \in {"user with this email already exists",
                           "user with this username already exists"}
        invalid == err \in {"invalid email or password",
                            "invalid refresh token: token signature is invalid",
                            "invalid refresh token: token is expired",
                            "invalid refresh token: token is not valid yet"}
        duplicate == err = CreateUserError("duplicated key not allowed")
    IN [error |-> err,
        status |-> IF notFound THEN 404 ELSE IF exists \/ duplicate THEN 409
                   ELSE IF invalid THEN 400 ELSE 500,
        message |-> IF notFound THEN "Resource not found"
                    ELSE IF exists \/ duplicate THEN "Resource already exists"
                    ELSE IF invalid THEN "Invalid input" ELSE "An error occurred"]

(***************************************************************************)
(* AuthService.Logout / LogoutAll / ChangePassword                         *)
(***************************************************************************)
Logout(p, tok) ==
    /\ pc[p] = "idle"
    /\ refresh_tokens' = DeleteRefreshToken(refresh_tokens, hashToken(tok))
    /\ Goto(p, "idle", [IdleLocal EXCEPT !.op = "Logout", !.tok = tok, !.result = "ok"])
    /\ UNCHANGED <<config, limiter, now, users, verifications, revoked>>

LogoutAll(p, u) ==
    /\ pc[p] = "idle"
    /\ users[u].exists
    /\ refresh_tokens' = DeleteUserRefreshTokens(refresh_tokens, u)
    /\ Goto(p, "idle", [IdleLocal EXCEPT !.op = "LogoutAll", !.user = u, !.result = "ok"])
    /\ UNCHANGED <<config, limiter, now, users, verifications, revoked>>

ChangePasswordStart(p, u, cur, new) ==
    /\ pc[p] = "idle"
    /\ IF ~users[u].exists
       THEN Fail(p, "ChangePassword", "user not found")
       ELSE IF ~CheckPassword(cur, users[u].password_hash)
       THEN Fail(p, "ChangePassword", "current password is incorrect")
       ELSE Goto(p, "password_update",
                 [IdleLocal EXCEPT !.op = "ChangePassword", !.user = u, !.pw = new])
    /\ UNCHANGED <<config, limiter, now, users, refresh_tokens, verifications, revoked>>

ChangePasswordUpdate(p) ==
    /\ pc[p] = "password_update"
    /\ users' = [users EXCEPT ![local[p].user].password_hash = HashPassword(local[p].pw)]
    /\ Goto(p, "password_logout", local[p])
    /\ UNCHANGED <<config, limiter, now, refresh_tokens, verifications, revoked>>

ChangePasswordLogoutAll(p) ==
    /\ pc[p] = "password_logout"
    /\ refresh_tokens' = DeleteUserRefreshTokens(refresh_tokens, local[p].user)
    /\ revoked' = revoked \cup
          { TokenOf(r) : r \in { x \in refresh_tokens : x.user_id = local[p].user } }
    /\ Goto(p, "idle", [IdleLocal EXCEPT !.op = "ChangePassword", !.result = "ok"])
    /\ UNCHANGED <<config, limiter, now, users, verifications>>

(***************************************************************************)
(* AuthService.VerifyEmail                                                 *)
(***************************************************************************)
\* "email_verification_token = ? AND email_verification_expires_at > now"
GetByEmailVerificationToken(us, tok, t) ==
    { u \in Users : /\ us[u].exists
                    /\ us[u].email_verification_token # NoEmailToken
                    /\ us[u].email_verification_token = tok
                    /\ us[u].email_verification_expires_at > t }

\* UserRepository.VerifyEmail: UPDATE of the three columns
VerifyEmailColumns(rec) ==
    [rec EXCEPT !.is_email_verified = TRUE, !.email_verification_token = NoEmailToken,
                !.email_verification_expires_at = 0]

VerifyEmailStart(p, tok) ==
    /\ pc[p] = "idle"
    /\ LET found == GetByEmailVerificationToken(users, tok, now)
       IN IF found = {}
          THEN Fail(p, "VerifyEmail", "invalid or expired verification token")
          ELSE \E u \in found :
                  IF users[u].is_email_verified
                  THEN Fail(p, "VerifyEmail", "email already verified")
                  ELSE Goto(p, "verify_email_update",
                            [IdleLocal EXCEPT !.op = "VerifyEmail", !.user = u,
                                              !.token = tok])
    /\ UNCHANGED <<config, limiter, now, users, refresh_tokens, verifications, revoked>>

VerifyEmailUpdate(p) ==
    /\ pc[p] = "verify_email_update"
    /\ users' = [users EXCEPT ![local[p].user] = VerifyEmailColumns(@)]
    /\ Goto(p, "idle", [IdleLocal EXCEPT !.op = "VerifyEmail", !.result = "ok"])
    /\ UNCHANGED <<config, limiter, now, refresh_tokens, verifications, revoked>>

(***************************************************************************)
(* VerificationRepository: statements on identity_verifications            *)
(***************************************************************************)
HasPendingVerification(rows, u) ==
    Cardinality({ v \in rows : v.user_id = u /\ v.status = "pending" }) > 0

\* First(&verification, id), read as the lookup by primary key: the set
\* holding the row, empty when it is gone
GetVerificationByID(rows, id) == { v \in rows : v.id = id }

NewVerificationRow(id, u) ==
    [id |-> id, user_id |-> u, status |-> "pending", reviewed_by |-> None]

\* Review, first statement: UPDATE ... WHERE id = ?
ReviewUpdateVerification(rows, id, status, reviewedBy) ==
    { IF v.id = id THEN [v EXCEPT !.status = status, !.reviewed_by = reviewedBy] ELSE v
      : v \in rows }

\* an approval that raises the flag and leaves the status as it was
ReviewApproveUserFlagOnly(rec) ==
    [rec EXCEPT !.is_verified = TRUE]

\* Review, the statement on users when the decision is approved
ReviewApproveUser(rec) ==
    [rec EXCEPT !.is_verified = TRUE, !.identity_verification_status = "approved"]

DeleteVerificationRow(rows, id) == { v \in rows : v.id # id }

\* uuid.New() for a submission: a key no row has and no review in flight holds
FreeVerificationIds ==
    { i \in VerificationIds :
        /\ \A v \in verifications : v.id # i
        /\ \A q \in Procs : local[q].vid # i }

NewVerificationId == CHOOSE i \in FreeVerificationIds : \A j \in FreeVerificationIds : i <= j

(***************************************************************************)
(* AuthMiddleware: the request carries an access token of u.  A client     *)
(* holds one once the Register that created u has returned.                *)
(***************************************************************************)
AuthMiddleware(u) ==
    /\ users[u].exists
    /\ \A q \in Procs :
          ~(local[q].op = "Register" /\ local[q].user = u /\ pc[q] # "idle")

\* RequireEmailVerificationMiddleware, in front of the submit route: the
\* request goes on to the handler when the user's email is verified
RequireEmailVerificationMiddleware(u) == users[u].is_email_verified

(***************************************************************************)
(* VerificationService.SubmitIdentityVerification                          *)
(***************************************************************************)
SubmitStart(p, u) ==
    /\ pc[p] = "idle"
    /\ AuthMiddleware(u)
    /\ RequireEmailVerificationMiddleware(u)
    /\ IF HasPendingVerification(verifications, u)
       THEN Fail(p, "Submit", "you already have a pending verification request")
       ELSE Goto(p, "submit_get_user", [IdleLocal EXCEPT !.op = "Submit", !.user = u])
    /\ UNCHANGED <<config, limiter, now, users, refresh_tokens, verifications, revoked>>

SubmitGetUser(p) ==
    /\ pc[p] = "submit_get_user"
    /\ LET user == users[local[p].user]
       IN IF ~user.exists
          THEN Fail(p, "Submit", "user not found")
          ELSE IF user.is_verified
          THEN Fail(p, "Submit", "user is already verified")
          ELSE Goto(p, "submit_create", [local[p] EXCEPT !.snapshot = user])
    /\ UNCHANGED <<config, limiter, now, users, refresh_tokens, verifications, revoked>>

SubmitCreate(p) ==
    /\ pc[p] = "submit_create"
    /\ FreeVerificationIds # {}
    /\ verifications' = verifications \cup
          { NewVerificationRow(NewVerificationId, local[p].user) }
    /\ Goto(p, "submit_update_user", [local[p] EXCEPT !.vid = NewVerificationId])
    /\ UNCHANGED <<config, limiter, now, users, refresh_tokens, revoked>>

\* user.IdentityVerificationStatus = pending; userRepo.Update(user) saves the
\* whole record as it was read
SubmitUpdateUser(p) ==
    /\ pc[p] = "submit_update_user"
    /\ users' = [users EXCEPT ![local[p].user] =
          [local[p].snapshot EXCEPT !.identity_verification_status = "pending"]]
    /\ Goto(p, "submit_return", [local[p] EXCEPT !.snapshot = NoUser])
    /\ UNCHANGED <<config, limiter, now, refresh_tokens, verifications, revoked>>

\* verificationRepo.GetByID(verification.ID): the submission is read back
SubmitReturn(p) ==
    /\ pc[p] = "submit_return"
    /\ IF GetVerificationByID(verifications, local[p].vid) = {}
       THEN Fail(p, "Submit", "verification not found")
       ELSE Goto(p, "idle", [IdleLocal EXCEPT !.op = "Submit", !.result = "ok"])
    /\ UNCHANGED <<config, limiter, now, users, refresh_tokens, verifications, revoked>>

(***************************************************************************)
(* VerificationService.ReviewVerification                                  *)
(***************************************************************************)
ReviewStart(p, id, decision, reviewer) ==
    /\ pc[p] = "idle"
    /\ LET found == GetVerificationByID(verifications, id)
       IN IF found = {}
          THEN Fail(p, "Review", "verification not found")
          ELSE IF \E v \in found : v.status # "pending"
          THEN Fail(p, "Review", "verification has already been reviewed")
          ELSE \E v \in found :
                  Goto(p, "review_transaction",
                       [IdleLocal EXCEPT !.op = "Review", !.vid = id, !.user = v.user_id,
                                         !.decision = decision, !.reviewer = reviewer])
    /\ UNCHANGED <<config, limiter, now, users, refresh_tokens, verifications, revoked>>

\* VerificationRepository.Review: one transaction.  An approval of a row that
\* is gone fails at its First() and rolls back.
ReviewTransaction(p) ==
    /\ pc[p] = "review_transaction"
    /\ LET id == local[p].vid
           found == GetVerificationByID(verifications, id)
       IN IF local[p].decision = "approved" /\ found = {}
          THEN /\ Fail(p, "Review", "failed to review verification")
               /\ UNCHANGED <<users, verifications>>
          ELSE /\ verifications' = ReviewUpdateVerification(
                      verifications, id, local[p].decision, local[p].reviewer)
               /\ users' = IF local[p].decision = "approved"
                           THEN [u \in Users |->
                                   IF \E v \in found : v.user_id = u
                                   THEN ReviewApproveUser(users[u]) ELSE users[u]]
                           ELSE users
               /\ Goto(p, "review_return", local[p])
    /\ UNCHANGED <<config, limiter, now, refresh_tokens, revoked>>

\* the approval email (its failure is logged only), then the reviewed row is
\* read and returned
\* a review whose approval email fails is reported as failed
ReviewReturnMailBlocks(p) ==
    /\ pc[p] = "review_return"
    /\ \E m \in (IF local[p].decision = "approved" THEN MailOutcomes ELSE {None}) :
          Goto(p, "idle",
               [IdleLocal EXCEPT !.op = "Review", !.mail = m,
                   !.result = IF m = "failed"
                              THEN "failed to send verification approval email"
                              ELSE IF GetVerificationByID(verifications, local[p].vid) = {}
                              THEN "verification not found" ELSE "ok"])
    /\ UNCHANGED <<config, limiter, now, users, refresh_tokens, verifications, revoked>>

ReviewReturn(p) ==
    /\ pc[p] = "review_return"
    /\ \E m \in (IF local[p].decision = "approved" THEN MailOutcomes ELSE {None}) :
          Goto(p, "idle",
               [IdleLocal EXCEPT !.op = "Review", !.mail = m,
                   !.result = IF GetVerificationByID(verifications, local[p].vid) = {}
                              THEN "verification not found" ELSE "ok"])
    /\ UNCHANGED <<config, limiter, now, users, refresh_tokens, verifications, revoked>>

(***************************************************************************)
(* VerificationService.DeleteVerification                                  *)
(***************************************************************************)
DeleteVerification(p, id) ==
    /\ pc[p] = "idle"
    /\ IF GetVerificationByID(verifications, id) = {}
       THEN /\ Fail(p, "Delete", "failed to delete verification")
            /\ UNCHANGED verifications
       ELSE /\ verifications' = DeleteVerificationRow(verifications, id)
            /\ Goto(p, "idle", [IdleLocal EXCEPT !.op = "Delete", !.result = "ok"])
    /\ UNCHANGED <<config, limiter, now, users, refresh_tokens, revoked>>

(***************************************************************************)
(* VerificationService.CanSubmitVerification: the triple (answer, reason,  *)
(* error); None is the nil error                                           *)
(***************************************************************************)
CanSubmitVerification(us, vs, u) ==
    IF ~us[u].exists THEN <<FALSE, "User not found", "user not found">>
    ELSE IF us[u].is_verified THEN <<FALSE, "User is already verified", None>>
    ELSE IF ~us[u].is_email_verified
    THEN <<FALSE, "Email must be verified before submitting identity verification", None>>
    ELSE IF HasPendingVerification(vs, u)
    THEN <<FALSE, "A verification request is already pending", None>>
    ELSE <<TRUE, "Can submit verification", None>>

\* the service method called with any user id; err keeps the error returned
CanSubmitVerificationCall(p, u) ==
    /\ pc[p] = "idle"
    /\ LET r == CanSubmitVerification(users, verifications, u)
       IN Goto(p, "idle", [IdleLocal EXCEPT !.op = "CanSubmitVerification", !.user = u,
                              !.result = r[2], !.err = r[3]])
    /\ UNCHANGED <<config, limiter, now, users, refresh_tokens, verifications, revoked>>

\* the handler behind GET /verification/can-submit; result keeps the reason
CanSubmit(p, u) ==
    /\ pc[p] = "idle"
    /\ AuthMiddleware(u)
    /\ Goto(p, "idle", [IdleLocal EXCEPT !.op = "CanSubmit", !.user = u,
                           !.result = CanSubmitVerification(users, verifications, u)[2]])
    /\ UNCHANGED <<config, limiter, now, users, refresh_tokens, verifications, revoked>>

(***************************************************************************)
(* UserService.UpdateProfile: read the record, change it, save all of it   *)
(***************************************************************************)
UpdateProfileStart(p, u) ==
    /\ pc[p] = "idle"
    /\ AuthMiddleware(u)
    /\ Goto(p, "profile_save",
            [IdleLocal EXCEPT !.op = "UpdateProfile", !.user = u, !.snapshot = users[u]])
    /\ UNCHANGED <<config, limiter, now, users, refresh_tokens, verifications, revoked>>

UpdateProfileSave(p, name) ==
    /\ pc[p] = "profile_save"
    /\ users' = [users EXCEPT ![local[p].user] =
          [local[p].snapshot EXCEPT !.full_name = name]]
    /\ Goto(p, "idle", [IdleLocal EXCEPT !.op = "UpdateProfile", !.result = "ok"])
    /\ UNCHANGED <<config, limiter, now, refresh_tokens, verifications, revoked>>

(***************************************************************************)
(* Session lifecycle of one client at a time: every auth handler runs to   *)
(* completion before the next request starts; the clock and the cleanup    *)
(* goroutine run alongside.                                                *)
(***************************************************************************)
SessionUsers == {"u1"}

SessionStep(p) ==
    \/ \E u \in SessionUsers, pw \in Passwords : RegisterCheck(p, u, "n1", pw)
    \/ RegisterCreate(p)
    \/ \E u \in SessionUsers, pw \in Passwords : LoginStart(p, u, pw)
    \/ \E tok \in RefreshTokens : RefreshStart(p, tok)
    \/ RefreshDelete(p)
    \/ StoreCount(p)
    \/ StoreFindOldest(p)
    \/ StoreDeleteOldest(p)
    \/ StoreCreate(p)
    \/ GetProfileReturn(p)
    \/ \E tok \in RefreshTokens : Logout(p, tok)
    \/ \E u \in SessionUsers : LogoutAll(p, u)
    \/ \E u \in SessionUsers, cur \in Passwords, new \in Passwords :
          ChangePasswordStart(p, u, cur, new)
    \/ ChangePasswordUpdate(p)
    \/ ChangePasswordLogoutAll(p)

SessionNext ==
    \/ Tick
    \/ CleanupExpiredTokens
    \/ SessionStep("p1")

SessionSpec == Init /\ [][SessionNext]_vars

(***************************************************************************)
(* Two clients of the same user at once.  The run starts in second 1 from   *)
(* a store the sequential runs reach: u1 registered in second 0 (session 1) *)
(* and logged in again in second 1, holding 4 or 5 live sessions.  Each     *)
(* client sends one request, Login or RefreshToken.                         *)
(***************************************************************************)
ConcurrentInit ==
    /\ config = DefaultConfig
    /\ limiter = NoLimiter
    /\ now = 1
    /\ users = [u \in Users |-> IF u = "u1" THEN NewUser("u1", "n1", "pw1", 0) ELSE NoUser]
    /\ \E n \in {MaxSessionsPerUser - 1, MaxSessionsPerUser} :
          refresh_tokens =
              { NewRefreshTokenRow(i, "u1", GenerateRefreshToken("u1", IF i = 1 THEN 0 ELSE 1),
                                   IF i = 1 THEN 0 ELSE 1) : i \in 1..n }
    /\ verifications = {}
    /\ pc = [p \in Procs |-> "idle"]
    /\ local = [p \in Procs |-> IdleLocal]
    /\ revoked = {}

ConcurrentStep(p) ==
    \/ local[p].op = None /\ \E u \in Users, pw \in Passwords : LoginStart(p, u, pw)
    \/ local[p].op = None /\ \E tok \in ClientTokens(now) : RefreshStart(p, tok)
    \/ local[p].op = None /\ \E tok \in ClientTokens(now) : Logout(p, tok)
    \/ local[p].op = None /\ LogoutAll(p, "u1")
    \/ RefreshDelete(p)
    \/ StoreCount(p)
    \/ StoreFindOldest(p)
    \/ StoreDeleteOldest(p)
    \/ StoreCreate(p)
    \/ GetProfileReturn(p)

ConcurrentNext ==
    \/ Tick
    \/ \E p \in Procs : ConcurrentStep(p)

ConcurrentSpec == ConcurrentInit /\ [][ConcurrentNext]_vars

(***************************************************************************)
(* Identity verification with concurrent requests: u1 registers, submits   *)
(* documents and edits the profile while admins review and delete the      *)
(* submissions.  Every request may overlap any other.                      *)
(***************************************************************************)
FullNames == {0, 1}

VerificationStep(p) ==
    \/ RegisterCheck(p, "u1", "n1", "pw1")
    \/ RegisterCreate(p)
    \/ StoreCount(p)
    \/ StoreCreate(p)
    \/ GetProfileReturn(p)
    \/ VerifyEmailStart(p, GenerateEmailVerificationToken("u1"))
    \/ VerifyEmailUpdate(p)
    \/ \E u \in Users : SubmitStart(p, u)
    \/ SubmitGetUser(p)
    \/ SubmitCreate(p)
    \/ SubmitUpdateUser(p)
    \/ SubmitReturn(p)
    \/ \E id \in VerificationIds, d \in {"approved", "rejected"}, a \in Admins :
          ReviewStart(p, id, d, a)
    \/ ReviewTransaction(p)
    \/ ReviewReturn(p)
    \/ \E id \in VerificationIds : DeleteVerification(p, id)
    \/ \E u \in Users : UpdateProfileStart(p, u)
    \/ \E name \in FullNames : UpdateProfileSave(p, name)

VerificationNext == \E p \in Procs : VerificationStep(p)

VerificationSpec == Init /\ [][VerificationNext]_vars

(***************************************************************************)
(* Identity verification with one request at a time, and the can-submit    *)
(* query between the requests.                                             *)
(***************************************************************************)
SequentialVerificationNext ==
    \/ VerificationStep("p1")
    \/ \E u \in Users : CanSubmit("p1", u)

SequentialVerificationSpec == Init /\ [][SequentialVerificationNext]_vars

(***************************************************************************)
(* Properties of the session store                                         *)
(***************************************************************************)

\* C1: in every reachable state each user has at most 5 non-expired
\* refresh-token sessions.
C1_AtMostFiveLiveSessions ==
    \A u \in Users :
        Cardinality(LiveSessions(refresh_tokens, u, now)) <= MaxSessionsPerUser

\* C2: when a user with 5 live sessions completes a Login, exactly one of
\* those sessions is deleted, it is the live session created earliest, the
\* new session is inserted, and afterwards the token of the deleted session
\* is rejected by RefreshToken while the tokens of the other four still work.
C2_LoginEvictsOldestLive ==
    [][\A p \in Procs :
        LET u == local[p].user
            before == LiveSessions(local[p].pre, u, now)
            after == LiveSessions(refresh_tokens', u, now)
        IN (/\ pc[p] = "store_create" /\ pc'[p] = "get_profile"
            /\ local[p].op = "Login"
            /\ Cardinality(before) = MaxSessionsPerUser)
           => \E d \in before :
                /\ \A o \in before : d.created_at <= o.created_at
                /\ \E n \in after \ before : after = (before \ {d}) \cup {n}
                /\ ~RefreshAccepts(refresh_tokens', TokenOf(d), now)
                /\ \A o \in before \ {d} :
                      RefreshAccepts(refresh_tokens', TokenOf(o), now)
      ]_vars

\* C4: rotation is single-use: once RefreshToken(t) has succeeded, presenting
\* t to RefreshToken again fails.
C4_RotationSingleUse ==
    \A p \in Procs :
        (pc[p] = "get_profile" /\ local[p].op = "RefreshToken")
            => ~RefreshAccepts(refresh_tokens, local[p].tok, now)

\* C6: after a successful ChangePassword(u), every refresh token issued to u
\* before that call is rejected by RefreshToken.
C6_PasswordChangeRevokes ==
    \A tok \in revoked : ~RefreshAccepts(refresh_tokens, tok, now)

\* C3: once two concurrent Login calls of a user have both completed, the
\* user has at most 5 live sessions.
C3_ConcurrentLoginsKeepCap ==
    (\A p \in Procs : pc[p] = "idle")
        => \A u \in Users :
              Cardinality(LiveSessions(refresh_tokens, u, now)) <= MaxSessionsPerUser

\* C5: of two concurrent RefreshToken calls presenting the same token at most
\* one succeeds: one stored session never yields two new sessions.
C5_ConcurrentRefreshOnce ==
    \A p, q \in Procs :
        (/\ p # q
         /\ pc[p] = "get_profile" /\ local[p].op = "RefreshToken"
         /\ pc[q] = "get_profile" /\ local[q].op = "RefreshToken")
        => local[p].stored # local[q].stored

(***************************************************************************)
(* Properties of the identity verification                                 *)
(***************************************************************************)

\* C7: in no reachable state, the intermediate states of concurrent requests
\* included, is a verification approved while its user has is_verified false
\* or an identity_verification_status other than approved.
C7_ApprovedImpliesVerifiedUser ==
    \A v \in verifications :
        v.status = "approved"
            => /\ users[v.user_id].is_verified
               /\ users[v.user_id].identity_verification_status = "approved"

\* C8: in every reachable state, for every user, is_verified is true if and
\* only if identity_verification_status is approved.
C8_VerifiedIffApproved ==
    \A u \in Users :
        users[u].is_verified <=> users[u].identity_verification_status = "approved"

\* C8 witness: a user was approved by a review, and a whole-record save of
\* that user is in flight.
C8_Witness ==
    \E u \in Users, p \in Procs :
        /\ users[u].is_verified
        /\ users[u].identity_verification_status = "approved"
        /\ \E v \in verifications : v.user_id = u /\ v.status = "approved"
        /\ pc[p] \in {"profile_save", "submit_update_user"} /\ local[p].user = u

\* C9: after Review of a pending verification with decision rejected has
\* succeeded, with no other request in flight, the record is rejected and its
\* user has identity_verification_status rejected and is_verified false.
C9_RejectedReviewMarksUser ==
    \A p \in Procs :
        (/\ pc[p] = "review_return" /\ local[p].decision = "rejected"
         /\ \A q \in Procs \ {p} : pc[q] = "idle")
            => /\ \A v \in GetVerificationByID(verifications, local[p].vid) :
                     v.status = "rejected"
               /\ users[local[p].user].identity_verification_status = "rejected"
               /\ ~users[local[p].user].is_verified

\* C10: between requests, a user's identity_verification_status is pending
\* if and only if the user has a verification record with status pending.
C10_PendingMirrorsRecord ==
    (\A p \in Procs : pc[p] = "idle")
        => \A u \in Users :
              users[u].identity_verification_status = "pending"
                  <=> HasPendingVerification(verifications, u)

\* C11: at every moment each user has at most one verification record with
\* status pending, also when two Submit calls of the user run concurrently.
C11_AtMostOnePending ==
    \A u \in Users :
        Cardinality({ v \in verifications : v.user_id = u /\ v.status = "pending" }) <= 1

\* C12: approved and rejected are terminal: no step changes the status or the
\* reviewer of a verification record whose status is approved or rejected,
\* also when two reviewers review the same pending record at the same time.
C12_ReviewedIsTerminal ==
    [][\A v \in verifications :
          v.status # "pending"
              => \A w \in verifications' : w.id = v.id => w = v]_vars

C14_StoredHashDecides ==
    /\ \A p \in Procs :
          (pc[p] = "idle" /\ local[p].op = "Logout")
              => ~RefreshAccepts(refresh_tokens, local[p].tok, now)
    /\ \A p \in Procs :
          (pc[p] = "idle" /\ local[p].op = "LogoutAll")
              => \A tok \in RefreshTokens :
                    tok.user_id = local[p].user => ~RefreshAccepts(refresh_tokens, tok, now)
    /\ \A tok \in RefreshTokens :
          (\A r \in refresh_tokens : r.token_hash = hashToken(tok) => r.expires_at <= now)
              => ~RefreshAccepts(refresh_tokens, tok, now)

\* C15: login failures are indistinguishable: every failing Login, for an
\* unknown email or for a known email with a wrong password, returns
\* 'invalid email or password' and leaves the session store unchanged.
C15_LoginFailuresIndistinguishable ==
    [][\A p \in Procs :
          (/\ pc[p] = "idle" /\ pc'[p] = "idle"
           /\ local'[p].op = "Login" /\ local'[p] # local[p])
              => /\ local'[p].result = "invalid email or password"
                 /\ refresh_tokens' = refresh_tokens]_vars

\* C15 witness: one Login has failed for an unknown email and another for a
\* known email, with the same message
C15_Witness ==
    \E p, q \in Procs :
        /\ pc[p] = "idle" /\ local[p].op = "Login" /\ local[p].result # "ok"
        /\ pc[q] = "idle" /\ local[q].op = "Login" /\ local[q].result # "ok"
        /\ ~users[local[p].user].exists
        /\ users[local[q].user].exists
        /\ local[p].result = local[q].result

(***************************************************************************)
(* Registration with concurrent requests: two clients register any email   *)
(* under any username; every request may overlap the other.                *)
(***************************************************************************)
RegisterStep(p) ==
    \/ \E u \in Users, n \in Usernames : RegisterCheck(p, u, n, "pw1")
    \/ RegisterCreate(p)
    \/ StoreCount(p)
    \/ StoreCreate(p)
    \/ GetProfileReturn(p)

RegisterNext == \E p \in Procs : RegisterStep(p)

RegisterSpec == Init /\ [][RegisterNext]_vars

(***************************************************************************)
(* The token codec under any configuration: JWT_ACCESS_SECRET and          *)
(* JWT_REFRESH_SECRET are read from the environment, each with a default;  *)
(* the service mints access and refresh tokens for its users as time goes. *)
(***************************************************************************)
Secrets == {DefaultConfig.AccessSecret, DefaultConfig.RefreshSecret, "s3"}

TokenInit ==
    /\ config \in [AccessSecret : Secrets, RefreshSecret : Secrets]
    /\ limiter = NoLimiter
    /\ now = 0
    /\ users = [u \in Users |-> NoUser]
    /\ refresh_tokens = {}
    /\ verifications = {}
    /\ pc = [p \in Procs |-> "idle"]
    /\ local = [p \in Procs |-> IdleLocal]
    /\ revoked = {}

MintAccessToken(p, u) ==
    /\ pc[p] = "idle"
    /\ Goto(p, "idle", [IdleLocal EXCEPT !.op = "GenerateAccessToken", !.user = u,
                                         !.tok = GenerateAccessToken(u, now)])
    /\ UNCHANGED <<config, limiter, now, users, refresh_tokens, verifications, revoked>>

MintRefreshToken(p, u) ==
    /\ pc[p] = "idle"
    /\ Goto(p, "idle", [IdleLocal EXCEPT !.op = "GenerateRefreshToken", !.user = u,
                                         !.tok = GenerateRefreshToken(u, now)])
    /\ UNCHANGED <<config, limiter, now, users, refresh_tokens, verifications, revoked>>

TokenNext ==
    \/ Tick
    \/ \E p \in Procs, u \in Users : MintAccessToken(p, u)
    \/ \E p \in Procs, u \in Users : MintRefreshToken(p, u)

TokenSpec == TokenInit /\ [][TokenNext]_vars

(***************************************************************************)
(* One request at a time, with CanSubmitVerification called for any user   *)
(* id, registered or not.                                                  *)
(***************************************************************************)
CanSubmitNext ==
    \/ SequentialVerificationNext
    \/ \E u \in Users : CanSubmitVerificationCall("p1", u)

CanSubmitSpec == Init /\ [][CanSubmitNext]_vars

(***************************************************************************)
(* The cleanup goroutine of main, as process p2: at each firing of the     *)
(* hourly ticker it calls CleanupExpiredTokens; an error is logged and the *)
(* loop waits for the next firing.  Meanwhile client p1 logs in as u1.     *)
(* The fairness is the premise that the ticker keeps firing and that the   *)
(* sweep eventually succeeds.                                              *)
(***************************************************************************)
SweepInit ==
    /\ config = DefaultConfig
    /\ limiter = NoLimiter
    /\ now = 0
    /\ users = [u \in Users |-> IF u = "u1" THEN NewUser("u1", "n1", "pw1", 0) ELSE NoUser]
    /\ refresh_tokens = {}
    /\ verifications = {}
    /\ pc = [p \in Procs |-> "idle"]
    /\ local = [p \in Procs |-> IdleLocal]
    /\ revoked = {}

SweepSucceeds(p) ==
    /\ pc[p] = "idle"
    /\ refresh_tokens' = CleanupExpiredRows(refresh_tokens, now)
    /\ Goto(p, "idle", [IdleLocal EXCEPT !.op = "CleanupExpiredTokens",
                                         !.pre = refresh_tokens, !.result = "ok"])
    /\ UNCHANGED <<config, limiter, now, users, verifications, revoked>>

SweepFails(p) ==
    /\ pc[p] = "idle"
    /\ Goto(p, "idle", [IdleLocal EXCEPT !.op = "CleanupExpiredTokens",
                                         !.result = "failed to cleanup expired tokens"])
    /\ UNCHANGED <<config, limiter, now, users, refresh_tokens, verifications, revoked>>

SweepClient(p) ==
    \/ \E pw \in Passwords : LoginStart(p, "u1", pw)
    \/ StoreCount(p)
    \/ StoreFindOldest(p)
    \/ StoreDeleteOldest(p)
    \/ StoreCreate(p)
    \/ GetProfileReturn(p)

SweepNext ==
    \/ Tick
    \/ SweepSucceeds("p2")
    \/ SweepFails("p2")
    \/ SweepClient("p1")

SweepSpec == SweepInit /\ [][SweepNext]_vars /\ WF_vars(SweepSucceeds("p2"))

(***************************************************************************)
(* The rate limiters (RateLimitMiddleware) as one client IP sees them.     *)
(* limiter is that IP's visitor in a RateLimiter of the given rate: the    *)
(* bucket's tokens and lastRefill, and admitted, a history field counting  *)
(* the requests let through.  The clock runs in seconds up to MaxClock,    *)
(* less than a minute, so all requests of a run fall within one 60-second  *)
(* window; cleanupVisitors drops a visitor unseen for 10 minutes, which no *)
(* run of this length reaches.                                             *)
(***************************************************************************)
Rates == {AuthRate, ApiRate, GlobalRate}

\* TokenBucket.refill at time t
refill(tb, t) ==
    LET elapsed == t - tb.lastRefill
        tokensToAdd == (elapsed * tb.rate) \div RefillSeconds
    IN IF tokensToAdd > 0
       THEN [tb EXCEPT !.tokens = IF tb.tokens + tokensToAdd > tb.rate
                                  THEN tb.rate ELSE tb.tokens + tokensToAdd,
                       !.lastRefill = t]
       ELSE tb

\* NewTokenBucket(rl.rate, rl.rate) for an IP that is not in visitors
NewTokenBucket(rate, t) ==
    [rate |-> rate, visitor |-> TRUE, tokens |-> rate, lastRefill |-> t, admitted |-> 0]

\* RateLimiter.Allow and TokenBucket.Allow under their mutexes
Allow(tb, t) ==
    LET v == IF tb.visitor THEN tb ELSE NewTokenBucket(tb.rate, t)
        r == refill(v, t)
    IN IF r.tokens > 0
       THEN [r EXCEPT !.tokens = r.tokens - 1, !.admitted = r.admitted + 1]
       ELSE r

RateLimitInit ==
    /\ config = DefaultConfig
    /\ \E rate \in Rates : limiter = [NoLimiter EXCEPT !.rate = rate]
    /\ now = 0
    /\ users = [u \in Users |-> NoUser]
    /\ refresh_tokens = {}
    /\ verifications = {}
    /\ pc = [p \in Procs |-> "idle"]
    /\ local = [p \in Procs |-> IdleLocal]
    /\ revoked = {}

RateLimitRequest ==
    /\ limiter' = Allow(limiter, now)
    /\ UNCHANGED <<config, now, users, refresh_tokens, verifications, pc, local, revoked>>

RateLimitTick ==
    /\ now < MaxClock
    /\ now' = now + 1
    /\ UNCHANGED <<config, limiter, users, refresh_tokens, verifications, pc, local, revoked>>

RateLimitNext == RateLimitRequest \/ RateLimitTick

RateLimitSpec == RateLimitInit /\ [][RateLimitNext]_vars

(***************************************************************************)
(* Storage failures.  Any statement storeRefreshToken sends to the         *)
(* database may return an error, and so may userRepo.GetProfile; Register, *)
(* Login and RefreshToken wrap the error and return it.  Nothing they did  *)
(* before is undone: none of them runs in a transaction.                   *)
(***************************************************************************)
StoreRefreshTokenError(op) ==
    CASE op = "RefreshToken" -> "failed to store new refresh token"
      [] OTHER -> "failed to store refresh token"

StoreFails(p) ==
    /\ pc[p] \in {"store_count", "store_find", "store_delete", "store_create"}
    /\ Fail(p, local[p].op, StoreRefreshTokenError(local[p].op))
    /\ UNCHANGED <<config, limiter, now, users, refresh_tokens, verifications, revoked>>

GetProfileFails(p) ==
    /\ pc[p] = "get_profile"
    /\ Fail(p, local[p].op, "failed to get user profile")
    /\ UNCHANGED <<config, limiter, now, users, refresh_tokens, verifications, revoked>>

\* one client at a time registers u1, logs in and rotates, over a database
\* that may fail
FaultStep(p) ==
    \/ \E n \in Usernames : RegisterCheck(p, "u1", n, "pw1")
    \/ RegisterCreate(p)
    \/ \E pw \in Passwords : LoginStart(p, "u1", pw)
    \/ \E tok \in ClientTokens(now) : RefreshStart(p, tok)
    \/ RefreshDelete(p)
    \/ StoreCount(p)
    \/ StoreFindOldest(p)
    \/ StoreDeleteOldest(p)
    \/ StoreCreate(p)
    \/ StoreFails(p)
    \/ GetProfileReturn(p)
    \/ GetProfileFails(p)

FaultNext == Tick \/ FaultStep("p1")

FaultSpec == Init /\ [][FaultNext]_vars

(***************************************************************************)
(* Two users: u2 is registered and holds a session; one client at a time   *)
(* registers u1 and runs every session operation for u1, with u1's tokens. *)
(***************************************************************************)
IsolationInit ==
    /\ config = DefaultConfig
    /\ limiter = NoLimiter
    /\ now = 0
    /\ users = [u \in Users |-> IF u = "u2" THEN NewUser("u2", "n2", "pw2", 0) ELSE NoUser]
    /\ refresh_tokens = { NewRefreshTokenRow(1, "u2", GenerateRefreshToken("u2", 0), 0) }
    /\ verifications = {}
    /\ pc = [p \in Procs |-> "idle"]
    /\ local = [p \in Procs |-> IdleLocal]
    /\ revoked = {}

IsolationStep(p) ==
    \/ RegisterCheck(p, "u1", "n1", "pw1")
    \/ RegisterCreate(p)
    \/ \E pw \in Passwords : LoginStart(p, "u1", pw)
    \/ \E t \in Instants : RefreshStart(p, GenerateRefreshToken("u1", t))
    \/ RefreshDelete(p)
    \/ StoreCount(p)
    \/ StoreFindOldest(p)
    \/ StoreDeleteOldest(p)
    \/ StoreCreate(p)
    \/ GetProfileReturn(p)
    \/ \E t \in Instants : Logout(p, GenerateRefreshToken("u1", t))
    \/ LogoutAll(p, "u1")
    \/ \E cur \in Passwords, new \in Passwords : ChangePasswordStart(p, "u1", cur, new)
    \/ ChangePasswordUpdate(p)
    \/ ChangePasswordLogoutAll(p)

IsolationNext == Tick \/ IsolationStep("p1")

IsolationSpec == IsolationInit /\ [][IsolationNext]_vars

(***************************************************************************)
(* Login and ChangePassword of the registered user u1 by two clients whose *)
(* requests may overlap.                                                   *)
(***************************************************************************)
PasswordRaceStep(p) ==
    \/ \E pw \in Passwords : LoginStart(p, "u1", pw)
    \/ StoreCount(p)
    \/ StoreFindOldest(p)
    \/ StoreDeleteOldest(p)
    \/ StoreCreate(p)
    \/ GetProfileReturn(p)
    \/ \E cur \in Passwords, new \in Passwords : ChangePasswordStart(p, "u1", cur, new)
    \/ ChangePasswordUpdate(p)
    \/ ChangePasswordLogoutAll(p)

PasswordRaceNext == \E p \in Procs : PasswordRaceStep(p)

PasswordRaceSpec == SweepInit /\ [][PasswordRaceNext]_vars

\* C16: refresh failures return one generic message whatever the cause: any
\* two failed RefreshToken calls get the same response.
C16_RefreshFailuresIndistinguishable ==
    \A p, q \in Procs :
        (/\ pc[p] = "idle" /\ local[p].op = "RefreshToken" /\ local[p].result # "ok"
         /\ pc[q] = "idle" /\ local[q].op = "RefreshToken" /\ local[q].result # "ok")
            => HandleError(local[p].result) = HandleError(local[q].result)

\* C17: a Login that follows a successful Register returns a refresh token
\* distinct from the registration's, however little time passes between them.
C17_LoginAfterRegisterIsDistinct ==
    [][\A p \in Procs :
          (/\ pc[p] = "idle" /\ local[p].op = "Register" /\ local[p].result = "ok"
           /\ local'[p].op = "Login" /\ pc'[p] = "store_count")
              => local'[p].newtok # local[p].newtok]_vars

\* C18: no two users share a username (an email is the key of users), and a
\* Register that does not create its user is answered with a conflict, also
\* when it passed the pre-check and lost to a concurrent Register.
C18_DuplicateRegisterIsConflict ==
    /\ \A u, v \in Users :
          (users[u].exists /\ users[v].exists /\ users[u].username = users[v].username)
              => u = v
    /\ \A p \in Procs :
          (pc[p] = "idle" /\ local[p].op = "Register" /\ local[p].result # "ok")
              => HandleError(local[p].result).status = 409

\* C19: no refresh token the service minted is accepted by
\* ValidateAccessToken and no access token by ValidateRefreshToken, at any
\* time, under the configured secrets.
C19_TokenKindsDoNotCross ==
    \A p \in Procs :
        /\ local[p].op = "GenerateRefreshToken" => ~ValidateAccessToken(local[p].tok, now)
        /\ local[p].op = "GenerateAccessToken" => ~ValidateRefreshToken(local[p].tok, now)

\* C20: VerifyEmail(t) sets is_email_verified and clears the token and its
\* expiry only when t is the stored, unexpired token of a user who is not yet
\* verified; a call that fails changes no user record.
C20_VerifyEmailOnlyOnce ==
    [][\A p \in Procs :
          /\ (pc[p] = "verify_email_update" /\ pc'[p] = "idle")
                => /\ local[p].user \in
                          GetByEmailVerificationToken(users, local[p].token, now)
                   /\ ~users[local[p].user].is_email_verified
                   /\ users'[local[p].user] = VerifyEmailColumns(users[local[p].user])
          /\ (local'[p].op = "VerifyEmail" /\ pc'[p] = "idle"
                 /\ local'[p].result # "ok" /\ local'[p] # local[p])
                => users' = users]_vars

\* C21: a failure of the notifier never blocks the primary operation: with
\* the email send failing, Register goes on to create the session and return
\* the pair, and an approving Review rolls nothing back and returns what it
\* would have returned with the email sent.
C21_MailFailureNeverBlocks ==
    [][\A p \in Procs :
          /\ (pc[p] = "register_create" /\ local'[p].mail = "failed")
                => /\ pc'[p] = "store_count"
                   /\ users'[local[p].user].exists
          /\ (pc[p] = "get_profile" /\ local[p].op = "Register"
                 /\ local[p].mail = "failed" /\ pc'[p] = "idle")
                => /\ local'[p].result = "ok"
                   /\ local'[p].newtok = local[p].newtok
                   /\ \E r \in refresh_tokens' :
                         r.token_hash = hashToken(local[p].newtok)
          /\ (pc[p] = "review_return" /\ pc'[p] = "idle" /\ local'[p].mail = "failed")
                => /\ users' = users
                   /\ verifications' = verifications
                   /\ local'[p].result = "ok"
                         <=> GetVerificationByID(verifications, local[p].vid) # {}]_vars

C21_Witness ==
    \E p, q \in Procs :
        /\ pc[p] = "idle" /\ local[p].op = "Register"
        /\ local[p].mail = "failed" /\ local[p].result = "ok"
        /\ pc[q] = "idle" /\ local[q].op = "Review"
        /\ local[q].mail = "failed" /\ local[q].result = "ok"
        /\ \E v \in verifications : v.status = "approved" /\ users[v.user_id].is_verified

\* C22: CanSubmitVerification never returns an error, whatever the user id,
\* and answers true only for an existing, unverified user with a verified
\* email and no pending submission.
C22_CanSubmitNeverRaises ==
    \A p \in Procs :
        (pc[p] = "idle" /\ local[p].op = "CanSubmitVerification")
            => /\ local[p].err = None
               /\ local[p].result = "Can submit verification"
                     => /\ users[local[p].user].exists
                        /\ ~users[local[p].user].is_verified
                        /\ users[local[p].user].is_email_verified
                        /\ ~HasPendingVerification(verifications, local[p].user)

\* the sessions whose expires_at has passed
ExpiredSessions == { r \in refresh_tokens : r.expires_at <= now }

\* C23: every session whose expires_at has passed is eventually deleted,
\* given that the ticker keeps firing and the sweep eventually succeeds; a
\* failed sweep deletes nothing and no sweep deletes a session whose
\* expires_at is still in the future.
C23_ExpiredSessionsAreSwept ==
    /\ \A i \in RowIds :
          (\E r \in ExpiredSessions : r.id = i) ~> ~(\E r \in ExpiredSessions : r.id = i)
    /\ [][\A p \in Procs :
             (local'[p].op = "CleanupExpiredTokens" /\ local'[p] # local[p])
                => /\ \A r \in refresh_tokens : r.expires_at > now => r \in refresh_tokens'
                   /\ local'[p].result # "ok" => refresh_tokens' = refresh_tokens]_vars

C23_Witness ==
    \E p \in Procs :
        /\ local[p].op = "CleanupExpiredTokens" /\ local[p].result = "ok"
        /\ \E r \in local[p].pre : r.expires_at <= now /\ r \notin refresh_tokens
        /\ \E r \in local[p].pre : r.expires_at > now /\ r \in refresh_tokens

\* C24: a rate limiter admits at most its rate of requests per client IP in
\* any 60-second window (5 for auth, 60 for API, 100 global), for every
\* arrival pattern, with the bucket's tokens between 0 and its capacity.
C24_AtMostRatePerWindow ==
    /\ limiter.admitted <= limiter.rate
    /\ limiter.tokens >= 0
    /\ limiter.tokens <= limiter.rate

\* C25: RefreshToken is all-or-nothing on the session store: when it returns
\* an error the session of the presented token is still there and no session
\* was added; when it succeeds the old session is gone and the new one is
\* stored.
C25_RefreshAllOrNothing ==
    [][\A p \in Procs :
          /\ (local[p].op = "RefreshToken" /\ pc[p] # "idle" /\ pc'[p] = "idle"
                 /\ local'[p].result # "ok")
                => /\ \E r \in refresh_tokens' : r.id = local[p].stored
                   /\ ~\E r \in refresh_tokens' :
                         r.token_hash = hashToken(local[p].newtok) /\ r.id # local[p].stored
          /\ (local[p].op = "RefreshToken" /\ pc[p] # "idle" /\ pc'[p] = "idle"
                 /\ local'[p].result = "ok")
                => /\ ~\E r \in refresh_tokens' : r.id = local[p].stored
                   /\ \E r \in refresh_tokens' :
                         r.token_hash = hashToken(local[p].newtok)]_vars

\* C26: a RefreshToken removes no session other than the one presented and
\* never takes the evict-oldest step, so that a successful rotation leaves
\* the number of the user's sessions unchanged.
C26_RotationKeepsOtherSessions ==
    [][\A p \in Procs :
          local[p].op = "RefreshToken"
            => /\ (pc[p] = "refresh_delete" /\ pc'[p] = "store_count")
                     => refresh_tokens' = DeleteRow(refresh_tokens, local[p].stored)
               /\ pc[p] = "store_count" => pc'[p] # "store_find"]_vars

\* C27: session operations are isolated per user: no step of Register, Login,
\* RefreshToken, Logout, LogoutAll or ChangePassword performed for u1, the
\* evict-oldest step included, creates, deletes or alters a session of u2.
C27_SessionsIsolatedPerUser ==
    [][{ r \in refresh_tokens' : r.user_id = "u2" }
          = { r \in refresh_tokens : r.user_id = "u2" }]_vars

C27_Witness ==
    \E p \in Procs :
        /\ pc[p] = "get_profile" /\ local[p].op = "Login" /\ local[p].user = "u1"
        /\ Cardinality({ r \in local[p].pre : r.user_id = "u1" }) >= MaxSessionsPerUser
        /\ \E r \in local[p].pre : r.user_id = "u1" /\ r \notin refresh_tokens
        /\ \E r \in refresh_tokens : r.user_id = "u2"

\* C28: when a Login with the old password overlaps a ChangePassword of the
\* same user, then once ChangePassword has completed no live session exists
\* that was obtained with the old password.
C28_NoSessionFromOldPassword ==
    \A p, q \in Procs :
        (/\ pc[q] = "idle" /\ local[q].op = "ChangePassword" /\ local[q].result = "ok"
         /\ pc[p] = "get_profile" /\ local[p].op = "Login"
         /\ ~CheckPassword(local[p].pw, users[local[p].user].password_hash))
            => ~\E r \in LiveSessions(refresh_tokens, local[p].user, now) :
                  r.token_hash = hashToken(local[p].newtok)

\* C29: if Register returns an error no user record was persisted: a failure
\* after the user row has been created does not leave an account behind.
C29_FailedRegisterLeavesNoUser ==
    [][\A p \in Procs :
          (local[p].op = "Register" /\ pc[p] # "idle" /\ pc'[p] = "idle"
             /\ local'[p].result # "ok")
            => ~users'[local[p].user].exists]_vars

\* C30: email verification is not undone by a concurrent whole-record
\* update: once is_email_verified is true it stays true and the used token
\* stays cleared, under every interleaving with UpdateProfile and Submit.
C30_EmailVerificationStays ==
    [][\A u \in Users :
          users[u].is_email_verified
            => /\ users'[u].is_email_verified
               /\ users'[u].email_verification_token = NoEmailToken]_vars

====
